---- MODULE Spec2Model ----
(***************************************************************************)
(* Model of the light-connection multiplexer of protocol/src/protocol.rs:  *)
(* the tables of Connection<T>, the dispatcher step Connection::broadcast, *)
(* the handshake, wait_msg and the command layer (Command::execute,        *)
(* GetBlockHeader::cmd, GetBlock::cmd).                                    *)
(*                                                                         *)
(* The caller is single threaded.  Every action runs the code from one     *)
(* blocking transport read (ntt.recv) up to the next one, so the frame     *)
(* that read returns is the action's input.  A panic!/unwrap/assert!/      *)
(* unimplemented! moves the caller to pc = "panicked" for good.            *)
(***************************************************************************)
EXTENDS Integers, Sequences, FiniteSets, TLC

VARIABLES
    server_cons,    \* Connection.server_cons : peer id -> ServerLightConnection
    client_cons,    \* Connection.client_cons : local id -> LightConnection
    map_to_client,  \* Connection.map_to_client : NodeId -> local id
    next_light_id,  \* Connection.next_light_id
    unread,         \* payload bytes of the last data frame header pulled from
                    \* the transport that no recv_len has read yet
    sent,           \* what the current (or last) call wrote to the transport
    pc,             \* position of the caller
    cur,            \* the call in progress: operation, local id, peer id
    last,           \* what the last action did: operation, frame pulled, branch
                    \* of broadcast taken, outcome, value returned, local id,
                    \* bytes wait_msg returned
    issued,         \* the identifiers get_free_light_id has returned, in order
    nrecv           \* number of frames pulled from the transport so far

vars == <<server_cons, client_cons, map_to_client, next_light_id, unread,
          sent, pc, cur, last, issued, nrecv>>

-----------------------------------------------------------------------------
(* Bounds of the model *)

MaxFrames == 6      \* number of frames the transport delivers in one run

(* Program constants *)

ReservedIds == 1024     \* LightId::new : assert!(id >= 1024)
FirstLightId == 1025    \* Connection::new : LightId::new(0x401)
LIGHT_ID_MIN == 1024    \* ntt::LIGHT_ID_MIN, first id find_next_connection_id tries
NodeIdLen == 2          \* length of an encoded NodeId (tag byte, nonce), scaled

-----------------------------------------------------------------------------
(* Values *)

\* first byte of a NodeId: syn ('S') or ack ('A')
SYN == 0
ACK == 1

\* the byte values a payload is made of: the two NodeId tags, which are also
\* the two tags of a decodable BlockHeaderResponse
Byte == {SYN, ACK}

RECURSIVE SeqsUpTo(_, _)
SeqsUpTo(S, n) ==
    IF n = 0 THEN {<<>>}
    ELSE LET shorter == SeqsUpTo(S, n - 1)
         IN  shorter \cup {Append(s, b) : s \in {t \in shorter : Len(t) = n - 1}, b \in S}

\* payloads up to the length of a NodeId
Payloads == SeqsUpTo(Byte, NodeIdLen)

\* Option<T>: None is the empty tuple, Some(v) the one-element tuple.
None == <<>>
Some(v) == <<v>>

Put(m, k, v) == [x \in (DOMAIN m) \cup {k} |-> IF x = k THEN v ELSE m[x]]
Del(m, k) == [x \in (DOMAIN m) \ {k} |-> m[x]]
EmptyMap == [x \in {} |-> 0]

\* ids the peer may put in a frame: two of the reserved range (those of the
\* documented scenarios) and the first above it
PeerIds == {7, 99, ReservedIds}

\* ntt::protocol::Command: Control(header, cid) | Data(cid, len), with the
\* payload that follows a data header on the stream
Frames ==
    [kind : {"create", "close", "ctl"}, id : PeerIds, bytes : {<<>>}]
    \cup [kind : {"data"}, id : PeerIds, bytes : Payloads]

NoFrame == [kind |-> "none", id |-> 0, bytes |-> <<>>]

\* the identifier a caller outside the command layer builds with LightId::new
\* for its own new_light_connection / close_light_connection calls
DirectIds == {2 * ReservedIds}

-----------------------------------------------------------------------------
(* LightId *)

\* LightId::new: the assertion holds
LightId_new_ok(id) == id >= ReservedIds

\* LightId::next
LightId_next(id) == id + 1

-----------------------------------------------------------------------------
(* ntt::protocol::NodeId, the identity token *)

make_syn(nonce) == <<SYN, nonce>>

\* NodeId::from_slice: Some(nodeid) exactly for a slice of the right length
from_slice(bytes) == IF Len(bytes) = NodeIdLen THEN Some(bytes) ELSE None

\* self.match_ack(ack): self is a syn, ack an ack of the same nonce
match_ack(self, ack) == self[1] = SYN /\ ack[1] = ACK /\ self[2] = ack[2]

\* the values ntt.get_nonce() may return
Nonces == Byte

-----------------------------------------------------------------------------
(* Application messages *)

\* cbor::decode_from_cbor::<Handshake>: succeeds on a payload that starts
\* with the handshake tag
decode_handshake_ok(bytes) == Len(bytes) >= 1 /\ bytes[1] = 0

\* cbor::decode_from_cbor::<BlockHeaderResponse>:
\*   0, h1, h2 ...  -> BlockHeaderResponse::Ok([h1, h2, ...])
\*   1, ...         -> another variant
\*   anything else  -> decoding error
decode_response(dat) ==
    IF Len(dat) >= 1 /\ dat[1] = 0 THEN [variant |-> "Ok", headers |-> Tail(dat)]
    ELSE IF Len(dat) >= 1 /\ dat[1] = 1 THEN [variant |-> "Err", headers |-> <<>>]
    ELSE [variant |-> "undecodable", headers |-> <<>>]

-----------------------------------------------------------------------------
(* LightConnection *)

\* LightConnection::new_with_nodeid
new_with_nodeid(id, nonce) ==
    [id |-> id, node_id |-> make_syn(nonce), received |-> None]

\* LightConnection::pending_received
pending_received(con) == con.received # None

\* LightConnection::get_received: swaps None into the buffer, returns the old one
get_received(con) == [ret |-> con.received, con |-> [con EXCEPT !.received = None]]

\* receive as it would be if it replaced the buffer instead of extending it
receive_overwrite(con, bytes) == [con EXCEPT !.received = Some(bytes)]

\* LightConnection::receive
receive(con, bytes) ==
    LET g == get_received(con)
    IN  [g.con EXCEPT !.received =
            Some(IF g.ret = None THEN bytes ELSE g.ret[1] \o bytes)]

-----------------------------------------------------------------------------
(* ServerLightConnection *)

Establishing == [st |-> "Establishing", nodeid |-> <<>>]
Established(nodeid) == [st |-> "Established", nodeid |-> nodeid]

-----------------------------------------------------------------------------
(* Connection *)

\* the fields of Connection an operation works on, with the branch the
\* operation took and whether it panicked
Conn ==
    [sc |-> server_cons, cc |-> client_cons, m2c |-> map_to_client,
     unread |-> unread, route |-> "none", panic |-> FALSE]

\* Connection::find_next_connection_id
RECURSIVE scan_free(_, _)
scan_free(cc, x) == IF x \in DOMAIN cc THEN scan_free(cc, LightId_next(x)) ELSE x

\* find_next_connection_id as it would be if the scan started at zero
find_next_connection_id_from_zero(cc) == scan_free(cc, 0)

find_next_connection_id(cc) == scan_free(cc, LIGHT_ID_MIN)

\* get_free_light_id as it would be if it did not advance the counter
get_free_light_id_stuck(n) == [id |-> n, next |-> n]

\* Connection::get_free_light_id: the id returned and the new counter
get_free_light_id(n) == [id |-> n, next |-> LightId_next(n)]

\* close_light_connection as it would be if it dropped every local channel
close_light_connection_all(cc, id) == EmptyMap

\* close_light_connection as it would be if it removed nothing
close_light_connection_noop(cc, id) == cc

\* Connection::close_light_connection
close_light_connection(cc, id) == Del(cc, id)

\* has_bytes_to_read as it would be if it tested pending_received only
has_bytes_to_read_pending(cc, id) ==
    IF id \notin DOMAIN cc THEN FALSE ELSE pending_received(cc[id])

\* Connection::has_bytes_to_read
has_bytes_to_read(cc, id) ==
    IF id \notin DOMAIN cc THEN FALSE
    ELSE IF cc[id].received = None THEN FALSE
    ELSE Len(cc[id].received[1]) > 0

\* the search as it would be if it never found a local channel
find_match_none(cc, nodeid) == None

\* the first entry of client_cons, in key order, whose token the nodeid acks
find_match(cc, nodeid) ==
    LET hits == {k \in DOMAIN cc : match_ack(cc[k].node_id, nodeid)}
    IN  IF hits = {} THEN None
        ELSE Some(CHOOSE k \in hits : \A j \in hits : k <= j)

\* the CloseConnection arm as it would be if it kept the peer channel's entry
broadcast_close_keep(c, f) ==
    IF ~LightId_new_ok(f.id) THEN [c EXCEPT !.route = "bad_id", !.panic = TRUE]
    ELSE [c EXCEPT !.route = "close"]

\* Connection::broadcast, CloseConnection arm
broadcast_close(c, f) ==
    IF ~LightId_new_ok(f.id) THEN [c EXCEPT !.route = "bad_id", !.panic = TRUE]
    ELSE [c EXCEPT !.sc = Del(c.sc, f.id), !.route = "close"]

\* Connection::broadcast, CreatedNewConnection arm
broadcast_create(c, f) ==
    IF ~LightId_new_ok(f.id) THEN [c EXCEPT !.route = "bad_id", !.panic = TRUE]
    ELSE IF f.id \in DOMAIN c.sc
         THEN [c EXCEPT !.route = "created_twice", !.panic = TRUE]
         ELSE [c EXCEPT !.sc = Put(c.sc, f.id, Establishing), !.route = "create"]

\* Connection::broadcast, Data arm for an Established peer channel
broadcast_established(c, f, nodeid) ==
    IF nodeid \notin DOMAIN c.m2c THEN [c EXCEPT !.route = "no_index"]
    ELSE LET client_id == c.m2c[nodeid]
         IN  IF client_id \notin DOMAIN c.cc THEN [c EXCEPT !.route = "closed_local"]
             ELSE [c EXCEPT !.unread = 0,
                            !.cc = Put(c.cc, client_id, receive(c.cc[client_id], f.bytes)),
                            !.route = "routed"]

\* Connection::broadcast, Data arm for an Establishing peer channel
broadcast_establishing(c, f) ==
    LET got == from_slice(f.bytes)
    IN  IF got = None
        THEN [c EXCEPT !.unread = 0, !.route = "bad_nodeid", !.panic = TRUE]
        ELSE LET nodeid == got[1]
                 sc2 == Put(Del(c.sc, f.id), f.id, Established(nodeid))
                 z == find_match(c.cc, nodeid)
             IN  [c EXCEPT !.unread = 0,
                           !.sc = sc2,
                           !.m2c = IF z = None THEN c.m2c ELSE Put(c.m2c, nodeid, z[1]),
                           !.route = "established"]

\* Connection::broadcast, Data arm; c.unread already counts the frame's payload
broadcast_data(c, f) ==
    IF ~LightId_new_ok(f.id) THEN [c EXCEPT !.route = "bad_id", !.panic = TRUE]
    ELSE IF f.id \notin DOMAIN c.sc THEN [c EXCEPT !.route = "untracked"]
    ELSE IF c.sc[f.id].st = "Established"
         THEN broadcast_established(c, f, c.sc[f.id].nodeid)
         ELSE broadcast_establishing(c, f)

\* ntt.recv(): the frame header leaves the stream, a data frame's payload stays
recv(c, f) == [c EXCEPT !.unread = IF f.kind = "data" THEN Len(f.bytes) ELSE 0]

\* Connection::broadcast on the frame the transport read returns
broadcast(c, f) ==
    LET c1 == recv(c, f)
    IN  IF f.kind = "close" THEN broadcast_close(c1, f)
        ELSE IF f.kind = "create" THEN broadcast_create(c1, f)
        ELSE IF f.kind = "ctl" THEN [c1 EXCEPT !.route = "unsupported"]
        ELSE broadcast_data(c1, f)

-----------------------------------------------------------------------------
(* command module *)

\* GetBlockHeader::cmd after wait_msg returned dat
GetBlockHeader_result(dat) ==
    LET l == decode_response(dat)
    IN  IF l.variant = "undecodable" THEN [out |-> "panic", ret |-> None]
        ELSE IF l.variant = "Ok"
             THEN IF l.headers = <<>> THEN [out |-> "panic", ret |-> None]
                  ELSE [out |-> "Ok", ret |-> Some(<<Head(l.headers)>>)]
             ELSE [out |-> "Err", ret |-> None]

\* GetBlock::cmd after wait_msg returned dat
GetBlock_result(dat) == [out |-> "Ok", ret |-> Some(dat)]

\* Self::cmd after wait_msg returned dat; a direct wait_msg call returns dat
cmd_result(op, dat) ==
    IF op = "GetBlockHeader" THEN GetBlockHeader_result(dat)
    ELSE IF op = "GetBlock" THEN GetBlock_result(dat)
    ELSE [out |-> "Ok", ret |-> Some(dat)]

\* Command::execute from the return of cmd: client_cons when execute returns
execute_tail(cc, id, out) ==
    IF out = "Ok" THEN close_light_connection(cc, id) ELSE cc

Commands == {"GetBlockHeader", "GetBlock"}

-----------------------------------------------------------------------------
(* Initial state: Connection::new *)

Idle == [op |-> "none", id |-> 0, siv |-> 0]

Init ==
    /\ server_cons = EmptyMap
    /\ client_cons = EmptyMap
    /\ map_to_client = EmptyMap
    /\ next_light_id = FirstLightId
    /\ unread = 0
    /\ sent = <<>>
    /\ pc = "idle"
    /\ cur = Idle
    /\ last = [op |-> "new", fr |-> NoFrame, route |-> "none", out |-> "Ok",
               ret |-> None, id |-> 0, dat |-> None]
    /\ issued = <<>>
    /\ nrecv = 0

-----------------------------------------------------------------------------
(* Steps shared by the actions *)

\* write the Connection fields back
SetConn(c) ==
    /\ server_cons' = c.sc
    /\ client_cons' = c.cc
    /\ map_to_client' = c.m2c
    /\ unread' = c.unread

\* the caller panics; dat is what wait_msg had returned, if it had returned
Abort(c, op, f, id, dat) ==
    /\ SetConn(c)
    /\ pc' = "panicked"
    /\ last' = [op |-> op, fr |-> f, route |-> c.route, out |-> "panic",
                ret |-> None, id |-> id, dat |-> dat]
    /\ UNCHANGED <<cur>>

\* wait_msg(ctx.id), entered or resumed with the Connection in state c after
\* frame f (NoFrame on entry): loop test, the two panic branches of the match
\* after the loop, return value, rest of cmd and execute
wait_msg(c, ctx, f) ==
    IF c.panic THEN Abort(c, ctx.op, f, ctx.id, None)
    ELSE IF ~has_bytes_to_read(c.cc, ctx.id)
    THEN /\ SetConn(c)
         /\ pc' = "wait"
         /\ cur' = ctx
         /\ last' = [op |-> ctx.op, fr |-> f, route |-> c.route, out |-> "pending",
                     ret |-> None, id |-> ctx.id, dat |-> None]
    ELSE IF ctx.id \notin DOMAIN c.cc
    THEN Abort([c EXCEPT !.route = "oops"], ctx.op, f, ctx.id, None)
    ELSE IF c.cc[ctx.id].received = None
    THEN Abort([c EXCEPT !.route = "oops2"], ctx.op, f, ctx.id, None)
    ELSE LET dat == c.cc[ctx.id].received[1]
             r == cmd_result(ctx.op, dat)
         IN  IF r.out = "panic"
             THEN /\ Abort(c, ctx.op, f, ctx.id, Some(dat))
             ELSE /\ SetConn([c EXCEPT !.cc =
                         IF ctx.op \in Commands
                         THEN execute_tail(c.cc, ctx.id, r.out) ELSE c.cc])
                  /\ pc' = "idle"
                  /\ cur' = Idle
                  /\ last' = [op |-> ctx.op, fr |-> f, route |-> c.route,
                              out |-> r.out, ret |-> r.ret, id |-> ctx.id,
                              dat |-> Some(dat)]

-----------------------------------------------------------------------------
(* Actions *)

\* handshake(): open the local channel, send, block for the peer's frame
Handshake ==
    /\ pc = "idle"
    /\ \E nonce \in Nonces :
        LET lcid == find_next_connection_id(client_cons)
            lc == new_with_nodeid(lcid, nonce)
        IN  /\ client_cons' = Put(client_cons, lcid, lc)
            /\ sent' = << <<"create", lcid>>, <<"data", lcid, "handshake">>,
                          <<"data", lcid, lc.node_id>> >>
            /\ cur' = [op |-> "handshake", id |-> lcid, siv |-> 0]
            /\ last' = [op |-> "handshake", fr |-> NoFrame, route |-> "none",
                        out |-> "pending", ret |-> None, id |-> lcid, dat |-> None]
    /\ pc' = "hs_create"
    /\ UNCHANGED <<server_cons, map_to_client, next_light_id, unread, issued, nrecv>>

\* data_recv_on as it would be without the test of the frame's id
data_recv_on_any(f, expected_id) == f.kind = "data"

\* handshake()'s data_recv_on: the frame is a data frame on expected_id
data_recv_on(f, expected_id) == f.kind = "data" /\ f.id = expected_id

\* handshake(): the first frame must be CreatedNewConnection
HandshakeCreated ==
    /\ pc = "hs_create"
    /\ nrecv < MaxFrames
    /\ nrecv' = nrecv + 1
    /\ \E f \in Frames :
        LET c == recv(Conn, f)
        IN  IF f.kind = "create" /\ LightId_new_ok(f.id)
            THEN /\ SetConn(c)
                 /\ pc' = "hs_payload"
                 /\ cur' = [cur EXCEPT !.siv = f.id]
                 /\ last' = [op |-> "handshake", fr |-> f, route |-> "none",
                             out |-> "pending", ret |-> None, id |-> cur.id, dat |-> None]
            ELSE Abort([c EXCEPT !.route =
                            IF f.kind = "create" THEN "bad_id" ELSE "unexpected"],
                       "handshake", f, cur.id, None)
    /\ UNCHANGED <<next_light_id, sent, issued>>

\* handshake(): data_recv_on(siv), then the handshake payload is decoded
HandshakePayload ==
    /\ pc = "hs_payload"
    /\ nrecv < MaxFrames
    /\ nrecv' = nrecv + 1
    /\ \E f \in Frames :
        LET c == recv(Conn, f)
        IN  IF data_recv_on(f, cur.siv)
            THEN IF decode_handshake_ok(f.bytes)
                 THEN /\ SetConn([c EXCEPT !.unread = 0])
                      /\ pc' = "hs_nodeid"
                      /\ last' = [op |-> "handshake", fr |-> f, route |-> "none",
                                  out |-> "pending", ret |-> None, id |-> cur.id, dat |-> None]
                      /\ UNCHANGED cur
                 ELSE Abort([c EXCEPT !.unread = 0, !.route = "bad_handshake"],
                            "handshake", f, cur.id, None)
            ELSE Abort([c EXCEPT !.route = "unexpected"], "handshake", f, cur.id, None)
    /\ UNCHANGED <<next_light_id, sent, issued>>

\* handshake(): data_recv_on(siv), the node id, registration, return
HandshakeNodeId ==
    /\ pc = "hs_nodeid"
    /\ nrecv < MaxFrames
    /\ nrecv' = nrecv + 1
    /\ \E f \in Frames :
        LET c == recv(Conn, f)
        IN  IF data_recv_on(f, cur.siv)
            THEN LET got == from_slice(f.bytes)
                 IN  IF got = None
                     THEN Abort([c EXCEPT !.unread = 0, !.route = "bad_nodeid"],
                                "handshake", f, cur.id, None)
                     ELSE /\ SetConn([c EXCEPT !.unread = 0,
                                 !.sc = Put(c.sc, cur.siv, Established(got[1]))])
                          /\ pc' = "idle"
                          /\ cur' = Idle
                          /\ last' = [op |-> "handshake", fr |-> f, route |-> "none",
                                      out |-> "Ok", ret |-> None, id |-> cur.id, dat |-> None]
            ELSE Abort([c EXCEPT !.route = "unexpected"], "handshake", f, cur.id, None)
    /\ UNCHANGED <<next_light_id, sent, issued>>

\* Command::execute: get_free_light_id, new_light_connection, block in broadcast
Execute(op) ==
    /\ pc = "idle"
    /\ \E nonce \in Nonces :
        LET a == get_free_light_id(next_light_id)
            lc == new_with_nodeid(a.id, nonce)
        IN  /\ next_light_id' = a.next
            /\ issued' = Append(issued, a.id)
            /\ client_cons' = Put(client_cons, a.id, lc)
            /\ sent' = << <<"create", a.id>>, <<"data", a.id, lc.node_id>> >>
            /\ cur' = [op |-> op, id |-> a.id, siv |-> 0]
            /\ last' = [op |-> op, fr |-> NoFrame, route |-> "none",
                        out |-> "pending", ret |-> None, id |-> a.id, dat |-> None]
    /\ pc' = "exec_ack"
    /\ UNCHANGED <<server_cons, map_to_client, unread, nrecv>>

ExecuteAny == \E op \in Commands : Execute(op)

\* Command::execute: the one broadcast() before cmd, then cmd sends its
\* request and enters wait_msg
ExecuteAck ==
    /\ pc = "exec_ack"
    /\ nrecv < MaxFrames
    /\ nrecv' = nrecv + 1
    /\ \E f \in Frames :
        LET c == broadcast(Conn, f)
        IN  /\ wait_msg(c, cur, f)
            /\ sent' = IF c.panic THEN sent
                       ELSE sent \o << <<"data", cur.id, "request_id">>,
                                       <<"data", cur.id, "request">> >>
    /\ UNCHANGED <<next_light_id, issued>>

\* wait_msg: one more turn of the loop, on the next frame
WaitStep ==
    /\ pc = "wait"
    /\ nrecv < MaxFrames
    /\ nrecv' = nrecv + 1
    /\ \E f \in Frames :
        LET c == broadcast(Conn, f)
        IN  /\ wait_msg(c, cur, f)
    /\ UNCHANGED <<next_light_id, sent, issued>>

\* a direct call of Connection::wait_msg(id), on an open local channel or on
\* an identifier that is not one
WaitMsg ==
    /\ pc = "idle"
    /\ \E id \in (DOMAIN client_cons) \cup DirectIds :
        wait_msg(Conn, [op |-> "wait_msg", id |-> id, siv |-> 0], NoFrame)
    /\ sent' = <<>>
    /\ UNCHANGED <<next_light_id, issued, nrecv>>

\* a direct call of Connection::broadcast()
Broadcast ==
    /\ pc = "idle"
    /\ nrecv < MaxFrames
    /\ nrecv' = nrecv + 1
    /\ \E f \in Frames :
        LET c == broadcast(Conn, f)
        IN  /\ IF c.panic THEN Abort(c, "broadcast", f, 0, None)
               ELSE /\ SetConn(c)
                    /\ pc' = "idle"
                    /\ cur' = Idle
                    /\ last' = [op |-> "broadcast", fr |-> f, route |-> c.route,
                                out |-> "Ok", ret |-> None, id |-> 0, dat |-> None]
    /\ sent' = <<>>
    /\ UNCHANGED <<next_light_id, issued>>

\* a direct call of Connection::new_light_connection(id)
Open ==
    /\ pc = "idle"
    /\ \E id \in DirectIds, nonce \in Nonces :
        LET lc == new_with_nodeid(id, nonce)
        IN  /\ client_cons' = Put(client_cons, id, lc)
            /\ sent' = << <<"create", id>>, <<"data", id, lc.node_id>> >>
            /\ last' = [op |-> "open", fr |-> NoFrame, route |-> "none",
                        out |-> "Ok", ret |-> None, id |-> id, dat |-> None]
    /\ UNCHANGED <<server_cons, map_to_client, next_light_id, unread, pc, cur,
                   issued, nrecv>>

\* a direct call of Connection::close_light_connection(id); the branch noted
\* tells whether the channel was open, and whether the call before was its open
Close ==
    /\ pc = "idle"
    /\ \E id \in (DOMAIN client_cons) \cup DirectIds :
        /\ client_cons' = close_light_connection(client_cons, id)
        /\ last' = [op |-> "close", fr |-> NoFrame,
                    route |-> IF id \notin DOMAIN client_cons THEN "absent"
                              ELSE IF last.op = "open" /\ last.id = id
                                   THEN "closed_unused" ELSE "closed",
                    out |-> "Ok", ret |-> None, id |-> id, dat |-> None]
    /\ sent' = <<>>
    /\ UNCHANGED <<server_cons, map_to_client, next_light_id, unread, pc, cur,
                   issued, nrecv>>

Next ==
    \/ Handshake
    \/ HandshakeCreated
    \/ HandshakePayload
    \/ HandshakeNodeId
    \/ ExecuteAny
    \/ ExecuteAck
    \/ WaitStep
    \/ WaitMsg
    \/ Broadcast
    \/ Open
    \/ Close

Spec == Init /\ [][Next]_vars

-----------------------------------------------------------------------------
(* Properties *)

\* the branches of the Data arm of broadcast that return
DataRoutes == {"untracked", "established", "routed", "no_index", "closed_local"}

\* this step ran Connection::broadcast on the frame last'.fr
BroadcastStepped == nrecv' # nrecv /\ last'.op # "handshake"

\* this step ran a transport read of handshake() on the frame last'.fr
HandshakeStepped == nrecv' # nrecv /\ last'.op = "handshake"

\* a data frame f that broadcast cannot route, judged in the state before it:
\* untracked id, Established without index entry, index entry of a closed channel
RoutingMiss(f) ==
    /\ f.kind = "data"
    /\ IF f.id \notin DOMAIN server_cons THEN TRUE
       ELSE IF server_cons[f.id].st # "Established" THEN FALSE
       ELSE IF server_cons[f.id].nodeid \notin DOMAIN map_to_client THEN TRUE
       ELSE map_to_client[server_cons[f.id].nodeid] \notin DOMAIN client_cons

\* C1: whenever broadcast has handled a data frame and returned, in any of
\* its routing outcomes, all the frame's payload bytes have been read from
\* the transport, so that the next read starts at a frame boundary.
C1_StreamAlignment == last.route \in DataRoutes => unread = 0

\* C2: a data frame that is a routing miss (untracked peer id of any value,
\* Established without index entry, index entry naming a closed local
\* channel) never makes broadcast panic and leaves server_cons, client_cons,
\* map_to_client and next_light_id as they were.
C2_RoutingMissNonFatal ==
    [][ (BroadcastStepped /\ RoutingMiss(last'.fr)) =>
            /\ pc' # "panicked"
            /\ server_cons' = server_cons
            /\ client_cons' = client_cons
            /\ map_to_client' = map_to_client
            /\ next_light_id' = next_light_id ]_vars

\* the local channel a data frame on Established peer channel id is routed to
RoutedTo(id) == map_to_client[server_cons[id].nodeid]

\* the bytes of a receive buffer, None counting as no bytes
BufBytes(con) == IF con.received = None THEN <<>> ELSE con.received[1]

\* get_received hands the buffer out once: it returns it, leaves None, and a
\* second call returns None
ConsumedOnce(con) ==
    LET g == get_received(con)
    IN  /\ g.ret = con.received
        /\ g.con.received = None
        /\ get_received(g.con).ret = None

\* C3: a data frame on an Established peer channel correlated to an open local
\* channel L extends L's buffer by exactly the frame's payload and leaves
\* every other local channel as it was (when the waiting command then returns
\* Ok and closes L, the bytes it got are the extended buffer); get_received
\* returns a channel's buffer once and leaves it empty.
C3_DataRouting ==
    [][ (BroadcastStepped /\ last'.route = "routed") =>
            LET L == RoutedTo(last'.fr.id)
                now == BufBytes(client_cons[L]) \o last'.fr.bytes
            IN  /\ L \in DOMAIN client_cons
                /\ \A k \in DOMAIN client_cons' :
                      /\ k \in DOMAIN client_cons
                      /\ k # L => client_cons'[k] = client_cons[k]
                      /\ ConsumedOnce(client_cons'[k])
                /\ IF L \in DOMAIN client_cons'
                   THEN client_cons'[L] =
                            [client_cons[L] EXCEPT !.received = Some(now)]
                   ELSE /\ L = cur.id
                        /\ last'.out = "Ok"
                        /\ last'.dat = Some(now)
                /\ DOMAIN client_cons \ DOMAIN client_cons' \subseteq {cur.id} ]_vars

\* C3 happens: a payload has just been appended to a buffer that already held
\* bytes, with another local channel open
C3_Witness ==
    /\ last.route = "routed"
    /\ Len(last.fr.bytes) > 0
    /\ Cardinality(DOMAIN client_cons) >= 2
    /\ last.fr.id \in DOMAIN server_cons
    /\ RoutedTo(last.fr.id) \in DOMAIN client_cons
    /\ Len(BufBytes(client_cons[RoutedTo(last.fr.id)])) > Len(last.fr.bytes)

\* C4: when wait_msg(id) has returned bytes to its caller (a direct caller,
\* or a cmd that then returned), the buffer of local channel id holds no
\* bytes any more, so that the next wait_msg(id) cannot return them again.
C4_WaitMsgClears ==
    (last.dat # None /\ last.out # "panic" /\ last.id \in DOMAIN client_cons) =>
        BufBytes(client_cons[last.id]) = <<>>

\* C5: when Command::execute has returned, Ok or Err, the local channel it
\* opened is no longer a key of client_cons.
C5_ExecuteClosesChannel ==
    (last.op \in Commands /\ last.out \in {"Ok", "Err"}) =>
        last.id \notin DOMAIN client_cons

\* C6: GetBlockHeader::cmd, on the response wait_msg returned, gives Ok(first
\* header) when the response decodes to Ok with a non-empty list and gives Err,
\* without panicking, in every other case.
C6_GetBlockHeaderOutcome ==
    (last.op = "GetBlockHeader" /\ last.dat # None) =>
        LET l == decode_response(last.dat[1])
        IN  IF l.variant = "Ok" /\ l.headers # <<>>
            THEN last.out = "Ok" /\ last.ret = Some(<<Head(l.headers)>>)
            ELSE last.out = "Err"

\* C7: in handshake(), a 'channel created' frame for a peer id p, then a data
\* frame on p with a decodable handshake payload, then a data frame on p with
\* a token T2 are each accepted, and handshake returns Ok with p registered as
\* Established(T2), map_to_client untouched and the local channel registered.
C7_HandshakeHappyPath ==
    [][ HandshakeStepped =>
          LET f == last'.fr
          IN  /\ (pc = "hs_create" /\ f.kind = "create") =>
                    (pc' = "hs_payload" /\ cur'.siv = f.id)
              /\ (pc = "hs_payload" /\ f.kind = "data" /\ f.id = cur.siv
                     /\ decode_handshake_ok(f.bytes)) =>
                    pc' = "hs_nodeid"
              /\ (pc = "hs_nodeid" /\ f.kind = "data" /\ f.id = cur.siv
                     /\ from_slice(f.bytes) # None) =>
                    /\ pc' = "idle"
                    /\ last'.out = "Ok"
                    /\ server_cons' = Put(server_cons, cur.siv, Established(f.bytes))
                    /\ map_to_client' = map_to_client
                    /\ cur.id \in DOMAIN client_cons' ]_vars

\* C8: a 'channel created' frame handled by broadcast is fatal and leaves the
\* entry alone when its id is tracked, and inserts the id as Establishing,
\* without a fatal error, when it is not.
C8_DuplicateCreateFatal ==
    [][ (BroadcastStepped /\ last'.fr.kind = "create") =>
          LET id == last'.fr.id
          IN  IF id \in DOMAIN server_cons
              THEN pc' = "panicked" /\ server_cons' = server_cons
              ELSE /\ pc' # "panicked"
                   /\ server_cons' = Put(server_cons, id, Establishing) ]_vars

C10_StrictlyIncreasing ==
    /\ issued # <<>> => issued[1] = FirstLightId
    /\ \A i \in 1..Len(issued) : \A j \in 1..Len(issued) :
          i < j => issued[i] < issued[j]
    /\ \A i \in 1..Len(issued) : issued[i] < next_light_id

\* C10 happens: a second identifier was handed out after the first channel
\* had been closed
C10_Witness ==
    /\ Len(issued) >= 2
    /\ issued[1] \notin DOMAIN client_cons

\* this step began handshake() or Command::execute: it chose an identifier
\* and registered the new local channel under it
OpenedByCall == pc = "idle" /\ pc' \in {"hs_create", "exec_ack"}

\* C11: the identifier that handshake() (linear scan) or Command::execute
\* (counter) chooses for a new local channel is never the key of a local
\* channel that is still open, so registering it overwrites no live entry.
C11_NoSharedId == [][ OpenedByCall => last'.id \notin DOMAIN client_cons ]_vars

PeerState(sc, p) == IF p \in DOMAIN sc THEN sc[p] ELSE [st |-> "absent", nodeid |-> <<>>]

\* the step appended nothing to a local buffer and opened no local channel
NoBufferTouched ==
    \A k \in DOMAIN client_cons' : k \in DOMAIN client_cons /\ client_cons'[k] = client_cons[k]

\* C13: in a broadcast step on frame f, the entry of every peer id other than
\* f's is unchanged, and the entry of f's id changes only absent ->
\* Establishing on a channel-created frame, Establishing -> Established(payload)
\* on a data frame, with the payload appended to no local buffer, or to
\* absent on a channel-closed frame; a data frame leaves an Established entry
\* and its token as they are; a channel-created frame for an absent id above
\* the reserved range is accepted and its entry starts at Establishing.
C13_PeerStateMachine ==
    [][ BroadcastStepped =>
          LET f == last'.fr
              before == PeerState(server_cons, f.id)
              after == PeerState(server_cons', f.id)
          IN  /\ \A p \in (DOMAIN server_cons \cup DOMAIN server_cons') \ {f.id} :
                    PeerState(server_cons', p) = PeerState(server_cons, p)
              /\ after # before =>
                    \/ /\ f.kind = "create"
                       /\ before.st = "absent" /\ after = Establishing
                    \/ /\ f.kind = "data"
                       /\ before = Establishing /\ after = Established(f.bytes)
                       /\ NoBufferTouched
                    \/ /\ f.kind = "close"
                       /\ after.st = "absent"
              /\ (f.kind = "data" /\ before.st = "Established") => after = before
              /\ (f.kind = "data" /\ before = Establishing /\ from_slice(f.bytes) # None) =>
                    /\ pc' # "panicked"
                    /\ after = Established(f.bytes)
                    /\ NoBufferTouched
              /\ (f.kind = "close" /\ LightId_new_ok(f.id)) =>
                    pc' # "panicked" /\ after.st = "absent"
              /\ (f.kind = "create" /\ before.st = "absent" /\ LightId_new_ok(f.id)) =>
                    pc' # "panicked" /\ after = Establishing ]_vars

\* C13 happens: a peer channel that had been Established and closed was
\* created again and stands at Establishing
C13_Witness ==
    /\ last.route = "create"
    /\ last.fr.id \in DOMAIN server_cons
    /\ server_cons[last.fr.id] = Establishing
    /\ DOMAIN map_to_client # {}
    /\ \A k \in DOMAIN client_cons : client_cons[k].received = None

\* the open local channels whose own token the token t acknowledges
Matching(cc, t) == {k \in DOMAIN cc : match_ack(cc[k].node_id, t)}

\* this broadcast step took the first data frame of an Establishing peer
\* channel, and its payload is a token
EstablishStepped ==
    /\ BroadcastStepped
    /\ last'.fr.kind = "data"
    /\ PeerState(server_cons, last'.fr.id) = Establishing
    /\ from_slice(last'.fr.bytes) # None

\* C14: when the first data frame of an Establishing peer channel carries
\* token t, map_to_client gains t -> L exactly when some open local channel
\* matches t, L being such a channel and every other entry staying as it was;
\* with no matching open channel map_to_client is unchanged and nothing
\* panics.
C14_CorrelationRule ==
    [][ EstablishStepped =>
          LET t == last'.fr.bytes
              hits == Matching(client_cons, t)
          IN  /\ pc' # "panicked"
              /\ hits = {} => map_to_client' = map_to_client
              /\ hits # {} =>
                    /\ DOMAIN map_to_client' = DOMAIN map_to_client \cup {t}
                    /\ map_to_client'[t] \in hits
                    /\ \A u \in DOMAIN map_to_client \ {t} :
                            map_to_client'[u] = map_to_client[u] ]_vars

\* C14 happens: with two local channels open, a peer channel was established
\* with a token that only one of them matches, and the index names that one
C14_Witness ==
    /\ last.route = "established"
    /\ Cardinality(DOMAIN client_cons) >= 2
    /\ Cardinality(Matching(client_cons, last.fr.bytes)) = 1
    /\ last.fr.bytes \in DOMAIN map_to_client
    /\ map_to_client[last.fr.bytes] \in Matching(client_cons, last.fr.bytes)

\* C15: for every correlation-index entry t -> L whose local channel L is
\* open, t is the ack of L's own token and of no other open local channel's
\* token, so a data frame on the peer channel holding t is appended to the
\* buffer of the channel whose exchange it answers and to no other.
C15_NoCrossDelivery ==
    \A t \in DOMAIN map_to_client :
        map_to_client[t] \in DOMAIN client_cons =>
            Matching(client_cons, t) = {map_to_client[t]}

\* data frame f is routed to open local channel id and brings it bytes
DeliversTo(f, id) ==
    /\ f.kind = "data" /\ Len(f.bytes) > 0
    /\ id \in DOMAIN client_cons
    /\ PeerState(server_cons, f.id).st = "Established"
    /\ server_cons[f.id].nodeid \in DOMAIN map_to_client
    /\ RoutedTo(f.id) = id

\* frames the protocol itself makes fatal to the dispatcher: a channel-created
\* frame for a tracked id, a first data frame that is no token
FatalFrame(f) ==
    \/ f.kind = "create" /\ f.id \in DOMAIN server_cons
    \/ f.kind = "data" /\ PeerState(server_cons, f.id) = Establishing
                       /\ from_slice(f.bytes) = None

\* C16: while wait_msg(id) is blocked on open channel id, the frame that
\* brings id a non-empty payload makes it return those bytes, and every other
\* frame (control frames, data for other tracked or untracked channels) is
\* drained in one step that neither returns early nor aborts the wait.
C16_WaitForProgress ==
    [][ (pc = "wait" /\ nrecv' # nrecv) =>
          LET f == last'.fr
          IN  /\ DeliversTo(f, cur.id) => last'.dat = Some(f.bytes)
              /\ (~DeliversTo(f, cur.id) /\ ~FatalFrame(f)) =>
                    pc' = "wait" /\ last'.dat = None ]_vars

\* C17: in Command::execute, when cmd is entered after the one broadcast()
\* that follows the opening of the local channel, the peer table has gained
\* an Establishing entry: the frame that step processed was the peer's
\* acknowledging channel-created frame, whatever the transport delivered.
C17_AckBeforeCmd ==
    [][ (pc = "exec_ack" /\ pc' \notin {"exec_ack", "panicked"}) =>
          \E p \in DOMAIN server_cons' \ DOMAIN server_cons :
              server_cons'[p] = Establishing ]_vars

\* this handshake() step read a frame that violates the handshake
\* sequence: something other than a channel-created frame first, then
\* something other than a data frame on the announced peer id, or a second
\* payload that is no token
HandshakeViolation ==
    LET f == last'.fr
    IN  \/ pc = "hs_create" /\ f.kind # "create"
        \/ pc \in {"hs_payload", "hs_nodeid"} /\ ~(f.kind = "data" /\ f.id = cur.siv)
        \/ pc = "hs_nodeid" /\ f.kind = "data" /\ f.id = cur.siv
                            /\ from_slice(f.bytes) = None

\* C18: a handshake() step that reads a violating frame aborts fatally: the
\* caller panics, no later step is taken, and neither the peer table nor the
\* correlation index gets an entry.
C18_HandshakeViolationFatal ==
    [][ (HandshakeStepped /\ HandshakeViolation) =>
          /\ pc' = "panicked"
          /\ server_cons' = server_cons
          /\ map_to_client' = map_to_client ]_vars

\* C18 happens: handshake() panicked on a data frame for another peer id
\* than the one announced, after the announcement had been accepted
C18_Witness ==
    /\ pc = "panicked"
    /\ last.op = "handshake"
    /\ last.route = "unexpected"
    /\ last.fr.kind = "data"
    /\ cur.siv >= ReservedIds
    /\ last.fr.id # cur.siv

\* C19: close_light_connection(id) removes the entry client_cons[id] and
\* nothing else: the correlation index, entries naming id included, the peer
\* table, the other local channels with their buffers and next_light_id are
\* unchanged, and nothing is sent; and no step of any operation removes a key
\* from map_to_client.
C19_CloseFrame ==
    [][ /\ (last'.op = "close" =>
                /\ client_cons' = Del(client_cons, last'.id)
                /\ map_to_client' = map_to_client
                /\ server_cons' = server_cons
                /\ next_light_id' = next_light_id
                /\ unread' = unread
                /\ sent' = <<>>)
        /\ DOMAIN map_to_client \subseteq DOMAIN map_to_client' ]_vars

\* C19 happens: a local channel was closed while the correlation index had an
\* entry naming it and another local channel held buffered bytes
C19_Witness ==
    /\ last.op = "close" /\ last.route = "closed"
    /\ \E t \in DOMAIN map_to_client : map_to_client[t] = last.id
    /\ \E k \in DOMAIN client_cons : client_cons[k].received # None

\* C20: a channel-closed frame for a peer id removes that peer-table entry
\* and nothing else: it is a no-op, not an error, when the id is untracked,
\* and the correlation index and every local channel's buffered bytes stay
\* as they were, still there for a later wait_msg.
C20_PeerCloseKeepsBuffers ==
    [][ (BroadcastStepped /\ last'.fr.kind = "close") =>
          /\ pc' # "panicked"
          /\ server_cons' = Del(server_cons, last'.fr.id)
          /\ client_cons' = client_cons
          /\ map_to_client' = map_to_client ]_vars

\* this step ran wait_msg on an identifier that is not an open local channel:
\* the entry of a direct call, or a turn of its loop
WaitOnAbsent ==
    \/ pc = "idle" /\ last'.op = "wait_msg" /\ last'.id \notin DOMAIN client_cons
    \/ pc = "wait" /\ nrecv' # nrecv /\ cur.id \notin DOMAIN client_cons

\* this turn of wait_msg's loop routed a zero-length data frame to the
\* channel waited on
EmptyFrameRouted ==
    /\ pc = "wait" /\ nrecv' # nrecv
    /\ last'.fr.kind = "data" /\ last'.fr.bytes = <<>>
    /\ cur.id \in DOMAIN client_cons
    /\ PeerState(server_cons, last'.fr.id).st = "Established"
    /\ server_cons[last'.fr.id].nodeid \in DOMAIN map_to_client
    /\ RoutedTo(last'.fr.id) = cur.id

\* C21: wait_msg never returns an empty byte sequence: has_bytes_to_read(id)
\* is true exactly when id is an open local channel whose buffer holds a
\* byte; a zero-length data frame routed to the channel waited on leaves its
\* buffer pending and empty and the wait blocked; wait_msg on an identifier
\* that is no open local channel never returns, and neither panic branch
\* after the loop is ever reached.
C21_NeverReturnsEmpty ==
    [][ /\ last'.dat # None => Len(last'.dat[1]) > 0
        /\ last'.route \notin {"oops", "oops2"}
        /\ \A id \in (DOMAIN client_cons') \cup DirectIds :
              has_bytes_to_read(client_cons', id) <=>
                  (id \in DOMAIN client_cons' /\ Len(BufBytes(client_cons'[id])) > 0)
        /\ EmptyFrameRouted =>
              /\ pc' = "wait"
              /\ client_cons'[cur.id].received = Some(<<>>)
        /\ WaitOnAbsent =>
              /\ pc' \in {"wait", "panicked"}
              /\ last'.dat = None
              /\ last'.id \notin DOMAIN client_cons' ]_vars

\* C21 happens: a zero-length data frame was routed to the channel wait_msg
\* is blocked on, whose buffer is now pending and empty
C21_Witness ==
    /\ pc = "wait"
    /\ last.route = "routed" /\ last.fr.bytes = <<>>
    /\ cur.id \in DOMAIN client_cons
    /\ client_cons[cur.id].received = Some(<<>>)

====
